---- MODULE Spec2Model ----
(***************************************************************************)
(* The Pong tutorial notebook (examples/notebooks/pong.ipynb): the PongEnv *)
(* environment adapter with its observation transform and duplication      *)
(* hook, the PongPolicy layer-construction hook, the training cell and the *)
(* playback cell.                                                          *)
(*                                                                         *)
(* Arrays are functions over 0..n-1, as numpy indexes them.  The classes   *)
(* the notebook subclasses or calls (dc.rl.GymEnvironment, dc.rl.A3C) are  *)
(* modelled from their documented contract; the Gym simulator is an        *)
(* external collaborator and is modelled as a nondeterministic source of   *)
(* raw frames of the Pong resolution.                                      *)
(***************************************************************************)
EXTENDS Integers, Sequences, FiniteSets, TLC

VARIABLES
  envs,        \* heap of environment objects: handle -> fields
  sims,        \* heap of Gym simulators: simulator id -> its internal state
  last,        \* the environment operation performed last: [op, h]
  ret,         \* what that operation returned or raised
  pc,          \* position of the notebook's top-level script
  now,         \* wall clock (datetime.now()), in seconds
  start,       \* the notebook's `start` timestamp (-1: not yet assigned)
  num_rounds,  \* the notebook's num_rounds
  round,       \* loop variable of the training loop
  a3c,         \* the trainer object: parameters, checkpoint, network outputs
  log,         \* operations the script has completed, before the loop
  iter         \* operations of the current playback iteration

vars == <<envs, sims, last, ret, pc, now, start, num_rounds, round, a3c, log, iter>>

envVars == <<envs, sims, last, ret>>
nbVars == <<pc, now, start, num_rounds, round, a3c, log, iter>>

(***************************************************************************)
(* Bounds of the model.                                                    *)
(***************************************************************************)
MaxEnvs == 2      \* environment objects alive at once
MaxRounds == 1    \* largest num_rounds the user sets
ClockStep == 20   \* seconds between two readings the modelled clock can give
MaxPre == 1       \* clock steps that may pass before playback begins
MaxOver == 2      \* clock steps followed after the playback window
\* The number of actions the simulator's action_space reports.  Pong-v0
\* reports 6; the simulator's answer to a step does not depend on the action
\* in this model, so a smaller number shows the same behaviour.
ActionSpaceN == 2

(***************************************************************************)
(* Program constants.                                                      *)
(***************************************************************************)
CropTop == 34
CropBottom == 194
Background == 233
Duration == 120
FitSteps == 1000
StateShape == <<80, 80>>
FrameShape == <<210, 160, 3>>   \* Pong-v0's observation_space.shape
AccBits == 64                   \* np.sum promotes uint8 to the platform uint

(***************************************************************************)
(* Raw frames.  A raw frame is a FrameShape array of uint8.  The simulator *)
(* draws them from a family: a rectangle of colour fg, rows top..bottom    *)
(* and columns left..right, on a background of colour bg.                  *)
(***************************************************************************)
PongBg == <<144, 72, 17>>       \* sums to 233
White == <<236, 236, 236>>
Wrapping == <<255, 234, 0>>     \* sums to 489 = 233 + 256
RedOnly == <<233, 0, 0>>        \* sums to 233, not the background colour
Black == <<0, 0, 0>>

Frame(bg, fg, top, bottom, left, right) ==
  [bg |-> bg, fg |-> fg, top |-> top, bottom |-> bottom,
   left |-> left, right |-> right]

Frames ==
  { Frame(PongBg, PongBg, 0, 0, 0, 0),          \* empty court
    Frame(PongBg, White, 34, 36, 0, 2),         \* top-left corner of the court
    Frame(PongBg, White, 30, 33, 16, 19),       \* in the score area only
    Frame(PongBg, White, 192, 194, 158, 159),   \* bottom-right, across the crop
    Frame(PongBg, Wrapping, 100, 101, 80, 81),  \* a colour that sums to 489
    Frame(PongBg, White, 35, 35, 1, 1),         \* one pixel on an odd row and column
    Frame(Black, RedOnly, 50, 51, 140, 143) }   \* another background

Pixel(f, r, c) ==
  IF f.top <= r /\ r <= f.bottom /\ f.left <= c /\ c <= f.right
  THEN f.fg ELSE f.bg

\* np.array(self._state): the frame as an array rows x columns x channels.
RawArray(f) ==
  [r \in 0..(FrameShape[1] - 1) |->
    [c \in 0..(FrameShape[2] - 1) |->
      [ch \in 0..(FrameShape[3] - 1) |-> Pixel(f, r, c)[ch + 1]]]]

(***************************************************************************)
(* numpy indexing and reduction.                                           *)
(***************************************************************************)
ALen(a) == Cardinality(DOMAIN a)

Min(a, b) == IF a < b THEN a ELSE b
Max(a, b) == IF a > b THEN a ELSE b

\* slice.indices for a positive step: a negative bound counts from the end,
\* then both bounds are clipped to 0..n.
NormIdx(i, n) == IF i < 0 THEN Max(i + n, 0) ELSE Min(i, n)

SliceLen(lo, hi, step) == IF hi <= lo THEN 0 ELSE (hi - lo + step - 1) \div step

\* a[start:stop:step]
PySlice(a, first, stop, step) ==
  LET n == ALen(a)
      lo == NormIdx(first, n)
      hi == NormIdx(stop, n)
  IN [k \in 0..(SliceLen(lo, hi, step) - 1) |-> a[lo + k * step]]

\* An unsigned accumulator of the given width; TLC's integers hold 31 bits,
\* which no sum of three uint8 reaches.
Wrap(x, bits) == IF bits >= 31 THEN x ELSE x % (2 ^ bits)

ChannelSumU8(px) == Wrap(px[0] + px[1] + px[2], 8)

\* np.sum(..., axis=2) of one pixel
ChannelSum(px) == Wrap(px[0] + px[1] + px[2], AccBits)

CroppedAt35(raw) == PySlice(raw, CropTop + 1, CropBottom + 1, 1)

CroppedToEnd(raw) == PySlice(raw, CropTop, ALen(raw), 1)

\* np.array(self._state)[34:194, :, :]
Cropped(raw) == PySlice(raw, CropTop, CropBottom, 1)

\* cropped[0:-1:2, 0:-1:2]
Reduced(cropped) ==
  LET rows == PySlice(cropped, 0, -1, 2)
  IN [i \in DOMAIN rows |-> PySlice(rows[i], 0, -1, 2)]

Grayscale(reduced) ==
  [i \in DOMAIN reduced |->
    [j \in DOMAIN reduced[i] |-> ChannelSum(reduced[i][j])]]

\* bw = np.zeros(grayscale.shape); bw[grayscale != 233] = 1
BlackWhite(grayscale) ==
  [i \in DOMAIN grayscale |->
    [j \in DOMAIN grayscale[i] |->
      IF grayscale[i][j] # Background THEN 1 ELSE 0]]

\* The body of the PongEnv.state property on a raw frame.
PongState(f) == BlackWhite(Grayscale(Reduced(Cropped(RawArray(f)))))

\* PongState of every frame of the family, evaluated once.
PongStateOf ==
  LET t == [f \in Frames |-> PongState(f)]
  IN IF t = t THEN t ELSE t

\* numpy's .shape of a two-dimensional array
Shape(g) == <<ALen(g), IF ALen(g) = 0 THEN 0 ELSE ALen(g[0])>>

(***************************************************************************)
(* Python values.  An attribute that may hold None is an option: <<>> is   *)
(* None and <<v>> is the value v.                                          *)
(***************************************************************************)
None == <<>>
Some(v) == <<v>>
NoGrid == <<>>
NoError == "none"

\* What a call gave back: the exception it raised (or NoError), the array it
\* returned (or NoGrid) and the object it returned (0: none).
Returned(exc, grid, ref) == [exc |-> exc, grid |-> grid, ref |-> ref]

(***************************************************************************)
(* The Gym simulator behind an environment (gym.make('Pong-v0')): the      *)
(* frame it shows and whether its episode is over.                         *)
(***************************************************************************)
NewSim == [frame |-> None, done |-> FALSE]

SimReset(s, f) == [s EXCEPT !.frame = Some(f), !.done = FALSE]

\* Once the episode is over it stays over until the next reset.
SimStep(s, f, d) == [s EXCEPT !.frame = Some(f), !.done = s.done \/ d]

(***************************************************************************)
(* dc.rl.GymEnvironment, the class PongEnv extends.                        *)
(***************************************************************************)
Handles == DOMAIN envs
NextHandle == Cardinality(DOMAIN envs) + 1
NextSim == Cardinality(DOMAIN sims) + 1

\* GymEnvironment.__init__(name) on a new simulator s.
GymEnvironmentInit(name, s) ==
  [cls |-> "GymEnvironment", name |-> name, env |-> s,
   _state_shape |-> FrameShape, _n_actions |-> ActionSpaceN,
   _state |-> None, _terminated |-> None]

\* GymEnvironment.reset()
GymReset(h) ==
  \E f \in Frames :
    /\ sims' = [sims EXCEPT ![envs[h].env] = SimReset(@, f)]
    /\ envs' = [envs EXCEPT ![h]._state = Some(f), ![h]._terminated = Some(FALSE)]
    /\ last' = [op |-> "reset", h |-> h]
    /\ ret' = Returned(NoError, NoGrid, 0)

\* GymEnvironment.step(action).  A step before the first reset is outside the
\* simulator's contract: it either raises or steps.
GymStep(h, action) ==
  LET s == envs[h].env IN
  \/ /\ sims[s].frame = None
     /\ UNCHANGED <<envs, sims>>
     /\ last' = [op |-> "step", h |-> h]
     /\ ret' = Returned("AssertionError", NoGrid, 0)
  \/ \E f \in Frames, d \in BOOLEAN :
       /\ sims' = [sims EXCEPT ![s] = SimStep(@, f, d)]
       /\ envs' = [envs EXCEPT ![h]._state = Some(f),
                                ![h]._terminated = Some(sims'[s].done)]
       /\ last' = [op |-> "step", h |-> h]
       /\ ret' = Returned(NoError, NoGrid, 0)

(***************************************************************************)
(* PongEnv                                                                 *)
(***************************************************************************)
\* PongEnv.__init__ on a new simulator s.
PongEnvInit(s) ==
  [GymEnvironmentInit("Pong-v0", s) EXCEPT !.cls = "PongEnv",
                                           !._state_shape = StateShape]

\* What reading the state property of a PongEnv gives.
StateValue(e) ==
  IF e._state = None
  THEN Returned("IndexError", NoGrid, 0)
  ELSE Returned(NoError, PongStateOf[e._state[1]], 0)

StateConsuming(h) ==
  /\ ret' = StateValue(envs[h])
  /\ envs' = [envs EXCEPT ![h]._state = None]
  /\ last' = [op |-> "state", h |-> h]
  /\ UNCHANGED sims

\* Reading PongEnv.state
State(h) ==
  /\ ret' = StateValue(envs[h])
  /\ last' = [op |-> "state", h |-> h]
  /\ UNCHANGED <<envs, sims>>

\* copy.copy's behaviour: a new object with the same attribute values.
ShallowCopy(h) ==
  /\ envs' = envs @@ (NextHandle :> envs[h])
  /\ sims' = sims
  /\ last' = [op |-> "deepcopy", h |-> h]
  /\ ret' = Returned(NoError, NoGrid, NextHandle)

\* PongEnv.__deepcopy__(memo): return PongEnv()
DeepCopy(h) ==
  /\ envs' = envs @@ (NextHandle :> PongEnvInit(NextSim))
  /\ sims' = sims @@ (NextSim :> NewSim)
  /\ last' = [op |-> "deepcopy", h |-> h]
  /\ ret' = Returned(NoError, NoGrid, NextHandle)

(***************************************************************************)
(* The state after the first cell: env = PongEnv().                        *)
(***************************************************************************)
Init ==
  /\ envs = (1 :> PongEnvInit(1))
  /\ sims = (1 :> NewSim)
  /\ last = [op |-> "init", h |-> 1]
  /\ ret = Returned(NoError, NoGrid, 1)
  /\ pc = "policy"
  /\ now = 0
  /\ start = -1
  /\ num_rounds = 0
  /\ round = 0
  /\ a3c = None
  /\ log = <<>>
  /\ iter = <<>>

(***************************************************************************)
(* The environment driven by an arbitrary caller (a rollout worker).       *)
(***************************************************************************)
Reset == \E h \in Handles : GymReset(h) /\ UNCHANGED nbVars

Step == \E h \in Handles : \E action \in 0..(envs[h]._n_actions - 1) :
          GymStep(h, action) /\ UNCHANGED nbVars

ReadState == \E h \in Handles : State(h) /\ UNCHANGED nbVars

Duplicate == \E h \in Handles :
               /\ Cardinality(Handles) < MaxEnvs
               /\ DeepCopy(h)
               /\ UNCHANGED nbVars

EnvNext == Reset \/ Step \/ ReadState \/ Duplicate

Spec == Init /\ [][EnvNext]_vars

(***************************************************************************)
(* PongPolicy                                                              *)
(***************************************************************************)
Feature(shape) == [op |-> "Feature", shape |-> shape]

\* The state inputs a trainer hands to create_layers.
StateInputs == { Feature(StateShape), Feature(FrameShape) }

\* The layers create_layers builds below its two outputs.
Trunk(state) ==
  LET conv1 == [op |-> "Conv2D", num_outputs |-> 16, in_layers |-> <<state>>,
                kernel_size |-> 8, stride |-> 4]
      conv2 == [op |-> "Conv2D", num_outputs |-> 32, in_layers |-> <<conv1>>,
                kernel_size |-> 4, stride |-> 2]
      flat == [op |-> "Flatten", in_layers |-> <<conv2>>]
      dense == [op |-> "Dense", out_channels |-> 256, in_layers |-> <<flat>>,
                activation_fn |-> "relu"]
      gru == [op |-> "GRU", n_hidden |-> 16, batch_size |-> 1,
              in_layers |-> <<[op |-> "Reshape", shape |-> <<1, -1, 256>>,
                              in_layers |-> <<dense>>]>>]
  IN [op |-> "Concat",
      in_layers |-> <<dense, [op |-> "Reshape", shape |-> <<-1, 16>>,
                            in_layers |-> <<gru>>]>>]

\* Both outputs built alike, the value as wide as the action probabilities.
create_layers_alike(state, e) ==
  LET concat == Trunk(state)
      action_prob == [op |-> "Dense", out_channels |-> e._n_actions,
                      activation_fn |-> "softmax", in_layers |-> <<concat>>]
      value == [op |-> "Dense", out_channels |-> e._n_actions,
                activation_fn |-> "none", in_layers |-> <<concat>>]
  IN [action_prob |-> action_prob, value |-> value]

\* PongPolicy.create_layers(state); e is the notebook's global env.
create_layers(state, e) ==
  LET concat == Trunk(state)
      action_prob == [op |-> "Dense", out_channels |-> e._n_actions,
                      activation_fn |-> "softmax", in_layers |-> <<concat>>]
      value == [op |-> "Dense", out_channels |-> 1,
                activation_fn |-> "none", in_layers |-> <<concat>>]
  IN [action_prob |-> action_prob, value |-> value]

(***************************************************************************)
(* dc.rl.A3C, by its contract: fit trains the parameters and saves them as *)
(* the latest checkpoint; restore loads the latest checkpoint;             *)
(* select_action maps an observation to an action.  Parameters are named   *)
(* by the fit that produced them (0: the initial parameters).              *)
(***************************************************************************)
A3CInit(outputs) == [outputs |-> outputs, params |-> 0, ckpt |-> None, fits |-> 0]

A3CFit(t, steps, restore) ==
  [t EXCEPT !.fits = @ + 1, !.params = t.fits + 1, !.ckpt = Some(t.fits + 1)]

A3CRestore(t) == [t EXCEPT !.params = t.ckpt[1]]

Actions(e) == 0..(e._n_actions - 1)

(***************************************************************************)
(* The notebook's script, cell by cell.  env is handle 1.                  *)
(***************************************************************************)
env == 1

LoopPcs == {"head", "render", "select", "step"}

Goto(p) == pc' = p

\* policy = PongPolicy()
PolicyCell ==
  /\ pc = "policy"
  /\ Goto("a3c")
  /\ log' = Append(log, "PongPolicy")
  /\ UNCHANGED <<envVars, now, start, num_rounds, round, a3c, iter>>

\* a3c = dc.rl.A3C(env, policy, model_dir='model', optimizer=...): the trainer
\* builds its network from policy.create_layers.
A3CCell ==
  /\ pc = "a3c"
  /\ \E state \in StateInputs :
       a3c' = Some(A3CInit(create_layers(state, envs[env])))
  /\ Goto("fit")
  /\ log' = Append(log, "A3C")
  /\ UNCHANGED <<envVars, now, start, num_rounds, round, iter>>

\* a3c.fit(1000); million = 10e6; num_rounds = 0.  The notebook invites the
\* reader to change num_rounds.
FitCell ==
  /\ pc = "fit"
  /\ a3c' = Some(A3CFit(a3c[1], FitSteps, FALSE))
  /\ num_rounds' \in 0..MaxRounds
  /\ round' = 0
  /\ Goto("rounds")
  /\ log' = Append(log, "fit")
  /\ UNCHANGED <<envVars, now, start, iter>>

\* for round in range(num_rounds): a3c.fit(million, restore=True)
RoundsLoop ==
  /\ pc = "rounds"
  /\ IF round < num_rounds
     THEN /\ a3c' = Some(A3CFit(a3c[1], 10 * 1000000, TRUE))
          /\ round' = round + 1
          /\ log' = Append(log, "fit")
          /\ UNCHANGED pc
     ELSE /\ Goto("restore")
          /\ UNCHANGED <<a3c, round, log>>
  /\ UNCHANGED <<envVars, now, start, num_rounds, iter>>

\* a3c.restore()
RestoreCell ==
  /\ pc = "restore"
  /\ a3c' = Some(A3CRestore(a3c[1]))
  /\ Goto("reset")
  /\ log' = Append(log, "restore")
  /\ UNCHANGED <<envVars, now, start, num_rounds, round, iter>>

SkipReset ==
  /\ pc = "reset"
  /\ Goto("start")
  /\ UNCHANGED <<envVars, now, start, num_rounds, round, a3c, log, iter>>

\* env.reset()
ResetCell ==
  /\ pc = "reset"
  /\ GymReset(env)
  /\ Goto("start")
  /\ log' = Append(log, "reset")
  /\ UNCHANGED <<now, start, num_rounds, round, a3c, iter>>

\* start = datetime.now()
StartCell ==
  /\ pc = "start"
  /\ start' = now
  /\ Goto("head")
  /\ UNCHANGED <<envVars, now, num_rounds, round, a3c, log, iter>>

LoopTestInclusive == now - start <= Duration

\* (datetime.now() - start).total_seconds() < 120
LoopTest == now - start < Duration

\* while ...: the test at the head of the playback loop
LoopHead ==
  /\ pc = "head"
  /\ IF LoopTest THEN Goto("render") /\ iter' = <<>>
                 ELSE Goto("done") /\ UNCHANGED iter
  /\ UNCHANGED <<envVars, now, start, num_rounds, round, a3c, log>>

\* What env.env.render() does: it returns, or the display backend raises.
RenderOutcomes == {"returned", "raised"}

RenderEnvNoTry(outcome) ==
  IF outcome = "raised"
  THEN Goto("crashed") /\ iter' = Append(iter, "render raised")
  ELSE Goto("select") /\ iter' = Append(iter, "render")

\* render_env(env): try: env.env.render() except Exception as e: print(e)
render_env(outcome) ==
  /\ Goto("select")
  /\ iter' = Append(iter, IF outcome = "raised" THEN "render caught" ELSE "render")

RenderStep ==
  /\ pc = "render"
  /\ \E outcome \in RenderOutcomes : render_env(outcome)
  /\ UNCHANGED <<envVars, now, start, num_rounds, round, a3c, log>>

\* a3c.select_action(env.state): the argument is read, then the action chosen;
\* it is kept in last.action until env.step takes it.
SelectStep ==
  /\ pc = "select"
  /\ ret' = StateValue(envs[env])
  /\ UNCHANGED <<envs, sims>>
  /\ IF ret'.exc = NoError
     THEN /\ \E action \in Actions(envs[env]) :
               last' = [op |-> "select_action", h |-> env, action |-> action,
                        params |-> a3c[1].params]
          /\ iter' = Append(iter, "select_action")
          /\ Goto("step")
     ELSE /\ last' = [op |-> "state", h |-> env]
          /\ Goto("crashed")
          /\ UNCHANGED iter
  /\ UNCHANGED <<now, start, num_rounds, round, a3c, log>>

StepResetting ==
  /\ pc = "step"
  /\ IF envs[env]._terminated = Some(TRUE)
     THEN GymReset(env) /\ iter' = Append(iter, "reset")
     ELSE GymStep(env, last.action) /\ iter' = Append(iter, "step")
  /\ Goto("head")
  /\ UNCHANGED <<now, start, num_rounds, round, a3c, log>>

\* env.step(<the selected action>); back to the loop head
StepStep ==
  /\ pc = "step"
  /\ GymStep(env, last.action)
  /\ iter' = Append(iter, "step")
  /\ Goto(IF ret'.exc = NoError THEN "head" ELSE "crashed")
  /\ UNCHANGED <<now, start, num_rounds, round, a3c, log>>

Script ==
  \/ PolicyCell \/ A3CCell \/ FitCell \/ RoundsLoop \/ RestoreCell
  \/ ResetCell \/ StartCell \/ LoopHead \/ RenderStep \/ SelectStep \/ StepStep

\* The wall clock advances by itself.  It is followed until the playback
\* window is over.
Tick ==
  /\ IF start = -1 THEN now < MaxPre * ClockStep
                   ELSE now < start + Duration + MaxOver * ClockStep
  /\ now' = now + ClockStep
  /\ UNCHANGED <<envVars, pc, start, num_rounds, round, a3c, log, iter>>

NotebookNext == Script \/ Tick

Notebook == Init /\ [][NotebookNext]_vars

\* The clock keeps advancing and every call of the script returns.
FairNotebook == Notebook /\ WF_vars(Tick) /\ WF_vars(Script)

(***************************************************************************)
(* Properties.                                                             *)
(***************************************************************************)
Cells == 0..(StateShape[1] - 1)

\* The sum over the colour channels of raw pixel (r, c) of frame f, in the
\* integers.
RawSum(f, r, c) == Pixel(f, r, c)[1] + Pixel(f, r, c)[2] + Pixel(f, r, c)[3]

\* The last operation read the state of an environment holding a frame.
JustRead == last.op = "state" /\ ret.exc = NoError
ReadFrame == envs[last.h]._state[1]

Range(q) == { q[i] : i \in DOMAIN q }
Count(q, x) == Cardinality({ i \in DOMAIN q : q[i] = x })

\* C1: whatever raw frame an environment holds, after any resets and steps,
\* its state is a grid of shape 80x80, the shape its constructor declared,
\* and that declared shape never changes.
C1_ShapeFixed ==
  /\ \A h \in Handles :
       /\ envs[h]._state_shape = <<80, 80>>
       /\ envs[h]._state # None =>
            /\ StateValue(envs[h]).exc = NoError
            /\ Shape(StateValue(envs[h]).grid) = envs[h]._state_shape
            /\ \A i \in DOMAIN StateValue(envs[h]).grid :
                 ALen(StateValue(envs[h]).grid[i]) = 80
  /\ JustRead => Shape(ret.grid) = <<80, 80>>

\* C1 witness: a state read after a reset and a step that ended the episode.
C1_Witness ==
  /\ JustRead
  /\ envs[last.h]._terminated = Some(TRUE)
  /\ Shape(ret.grid) = <<80, 80>>

\* The grid over 0..79 x 0..79 whose cell (i, j) is 1 if the channel sum of raw
\* pixel (34 + 2i, 2j) of frame f differs from 233, and 0 otherwise.
RuleGrid(f) ==
  [i \in 0..79 |->
    [j \in 0..79 |-> IF RawSum(f, 34 + 2 * i, 2 * j) # 233 THEN 1 ELSE 0]]

\* RuleGrid of every frame of the family, evaluated once.
RuleGridOf ==
  LET t == [f \in Frames |-> RuleGrid(f)]
  IN IF t = t THEN t ELSE t

\* The cells of frame f whose raw pixel sums to a value other than 233 that is
\* congruent to 233 modulo 256 (489 and 745).
WrapCells(f) ==
  { c \in (0..79) \X (0..79) :
      LET sum == RawSum(f, 34 + 2 * c[1], 2 * c[2])
      IN sum # 233 /\ sum % 256 = 233 }

\* WrapCells of every frame of the family, evaluated once.
WrapCellsOf ==
  LET t == [f \in Frames |-> WrapCells(f)]
  IN IF t = t THEN t ELSE t

\* C2: every cell (i, j) of the grid read from a frame is 0 or 1, and it is 1
\* exactly when the channel sum of raw pixel (34 + 2i, 2j) differs from 233.
C2_CellRule == JustRead => ret.grid = RuleGridOf[ReadFrame]

\* C2 witness: a grid read with both a foreground and a background cell.
C2_Witness ==
  /\ JustRead
  /\ \E i \in Cells, j \in Cells : ret.grid[i][j] = 1
  /\ \E i \in Cells, j \in Cells : ret.grid[i][j] = 0

\* C3: reading the state changes no environment and no simulator, a read
\* directly after a read of an equal raw frame (of the same environment or of
\* another) returns the identical result.
C3_Deterministic ==
  [][/\ last'.op = "state" => envs' = envs /\ sims' = sims
     /\ (last.op = "state" /\ last'.op = "state"
           /\ envs[last.h]._state = envs'[last'.h]._state) => ret' = ret]_vars

\* C3 witness: a grid was read from an environment while another environment
\* holds the same raw frame.
C3_Witness ==
  /\ JustRead
  /\ \E h \in Handles : h # last.h /\ envs[h]._state = envs[last.h]._state

\* C4: a deep copy returns a new PongEnv, unreset, with the 80x80 shape and a
\* simulator of its own, and leaves every existing object as it was; a step or
\* reset of one environment leaves every other environment's raw frame,
\* termination flag and simulator unchanged.
C4_CopyIndependent ==
  [][/\ \A h \in DOMAIN envs' :
          envs'[h].cls = "PongEnv" /\ envs'[h]._state_shape = <<80, 80>>
     /\ last'.op = "deepcopy" =>
          /\ ret'.ref \in DOMAIN envs' \ DOMAIN envs
          /\ envs'[ret'.ref]._state = None
          /\ envs'[ret'.ref]._terminated = None
          /\ \A h \in DOMAIN envs :
               envs'[h] = envs[h] /\ envs'[h].env # envs'[ret'.ref].env
          /\ \A s \in DOMAIN sims : sims'[s] = sims[s]
     /\ last'.op \in {"step", "reset"} =>
          \A o \in DOMAIN envs :
            o # last'.h =>
              /\ envs'[o] = envs[o]
              /\ sims'[envs[o].env] = sims[envs[o].env]]_vars

\* C4 witness: the copy has been stepped to the end of its episode while the
\* original, reset before the copy was made, is still in its episode.
C4_Witness ==
  /\ Cardinality(Handles) >= 2
  /\ last = [op |-> "step", h |-> 2]
  /\ envs[2]._terminated = Some(TRUE)
  /\ envs[1]._terminated = Some(FALSE)
  /\ sims[envs[1].env].done = FALSE

\* C5: render_env always returns to the loop, whether the rendering call
\* returned or raised, and the iteration goes on to exactly one select_action
\* and then exactly one env.step.
C5_RenderTolerated ==
  [][/\ pc = "render" => pc' \in {"render", "select"}
     /\ pc = "select" => pc' \in {"select", "step"}
     /\ pc = "step" => pc' \in {"step", "head"}
     /\ pc' = "head" /\ pc = "step" =>
          iter' \in { <<"render", "select_action", "step">>,
                      <<"render caught", "select_action", "step">> }]_vars

\* C5 witness: an iteration whose rendering call raised has completed.
C5_Witness ==
  pc = "head" /\ iter = <<"render caught", "select_action", "step">>

\* The operations of the script before the loop, in order.
FullLog ==
  <<"PongPolicy", "A3C", "fit">> \o [i \in 1..num_rounds |-> "fit"]
    \o <<"restore", "reset">>

\* C6: the script's operations happen in the order policy, trainer, the fit
\* calls (at least one), restore, reset; all of them are complete before the
\* first render, state read, select_action and step; and every action is
\* selected with the parameters of the latest fit.
C6_Sequential ==
  /\ Len(log) <= Len(FullLog)
  /\ \A i \in DOMAIN log : log[i] = FullLog[i]
  /\ (pc \in LoopPcs \cup {"done", "crashed"} \/ iter # <<>>) =>
       /\ log = FullLog
       /\ Count(log, "fit") >= 1
       /\ a3c[1].fits = Count(log, "fit")
       /\ a3c[1].params = a3c[1].fits
       /\ envs[env]._state # None
  /\ pc \in {"policy", "a3c", "fit", "rounds", "restore", "reset", "start"} =>
       iter = <<>> /\ last.op \notin {"state", "select_action", "step"}
  /\ last.op = "select_action" => last.params = a3c[1].fits

\* C6 witness: an action selected after two fit calls.
C6_Witness ==
  pc = "step" /\ last.op = "select_action" /\ Count(log, "fit") = 2

\* C7: create_layers returns a mapping with exactly the keys action_prob and
\* value; action_prob is a softmax output with one channel per action of the
\* environment and value is an output of width 1.
C7_LayersContract ==
  a3c # None =>
    LET out == a3c[1].outputs IN
    /\ DOMAIN out = {"action_prob", "value"}
    /\ out.action_prob.op = "Dense"
    /\ out.action_prob.activation_fn = "softmax"
    /\ out.action_prob.out_channels = envs[env]._n_actions
    /\ out.value.op = "Dense"
    /\ out.value.out_channels = 1

\* C7 witness: the trainer holds the outputs built from a raw-frame input.
C7_Witness ==
  /\ a3c # None
  /\ a3c[1].outputs = create_layers(Feature(FrameShape), envs[env])
  /\ a3c[1].outputs.action_prob.out_channels = ActionSpaceN

\* C8: the playback loop eventually exits; the test at the loop head starts
\* an iteration exactly when fewer than 120 seconds have elapsed since start,
\* and leaves the loop otherwise; once left, the loop is not entered again.
C8_PlaybackStops ==
  /\ <>(pc = "done")
  /\ [][/\ (pc = "head" /\ pc' # pc) =>
            /\ now - start < 120 => pc' = "render"
            /\ now - start >= 120 => pc' = "done"
        /\ pc = "done" => pc' = "done"]_vars

\* C8 witness: the loop has run an iteration and has exited at 120 seconds.
C8_Witness ==
  pc = "done" /\ iter # <<>> /\ now - start = 120

\* C9: during playback env.reset() has been called exactly once, before the
\* loop; the loop continues on a terminated environment: the step of an
\* iteration is issued on it, with no reset, and the next iteration follows.
C9_NoResetInLoop ==
  [][/\ pc' \in LoopPcs \cup {"done"} =>
          Count(log', "reset") = 1 /\ "reset" \notin Range(iter')
     /\ (pc = "step" /\ pc' # pc /\ envs[env]._terminated = Some(TRUE)) =>
          /\ last'.op = "step"
          /\ iter' = Append(iter, "step")
          /\ pc' = "head"
     /\ (pc = "head" /\ pc' # pc /\ now - start < 120) => pc' = "render"]_vars

\* C9 witness: the step of an iteration is about to be issued on an
\* environment whose episode ended in an earlier iteration.
C9_Witness ==
  /\ pc = "step"
  /\ envs[env]._terminated = Some(TRUE)
  /\ sims[envs[env].env].done

\* C10: the channel sum is not reduced modulo 256: a cell whose raw pixel
\* sums to 489, or to any value other than 233 that is congruent to 233
\* modulo 256, is foreground.
C10_NoWraparound ==
  JustRead => \A c \in WrapCellsOf[ReadFrame] : ret.grid[c[1]][c[2]] = 1

\* C10 witness: a grid read from a frame with a pixel that sums to 489.
C10_Witness ==
  /\ JustRead
  /\ RawSum(ReadFrame, 34 + 2 * 33, 2 * 40) = 489
  /\ <<33, 40>> \in WrapCellsOf[ReadFrame]
  /\ ret.grid[33][40] = 1
====
